---- MODULE Spec2Model ----
(***************************************************************************)
(* Model of the englitune worker: the query validators (validateLimit,     *)
(* validateExcluded, validators), the query builder, the routes of the app *)
(* and the fetch handler with the parameter checks of params.ts.           *)
(*                                                                         *)
(* A JavaScript string is a sequence of one-character strings.  A query    *)
(* value is a record [t, s, a]: t is the typeof tag ("undefined",          *)
(* "string", "array"), s the characters of a string, a the strings of an   *)
(* array (a parameter repeated in the query string).                       *)
(***************************************************************************)
EXTENDS Integers, Sequences, FiniteSets, TLC

VARIABLES
  pc,               \* where the handling of the current request stands
  rawLimit,         \* the 'limit' query value of the request
  rawExcluded,      \* the 'excluded' query value of the request
  limitResult,      \* what validateLimit returned
  excludedResult,   \* what validateExcluded returned
  calls,            \* the validation functions invoked for the request, in order
  queryArgs,        \* the limit and the map getRandomTranscriptsWithSpeaker was given
  stmt,             \* the statement prepared and bound for the request
  dbCalls,          \* number of stmt.all() calls issued for the request
  storeReply,       \* what stmt.all() resolved or rejected with
  outcome,          \* what getRandomTranscriptsWithSpeaker returned or threw
  response,         \* the HTTP response of the request
  log,              \* what console.error was given, in order
  DEFAULT_EXCLUDED, \* the module-level Map shared by all requests
  request,          \* the handler, method and path of the current request
  earlier           \* an earlier run of the validators: its values and results

vars == <<pc, rawLimit, rawExcluded, limitResult, excludedResult, calls, queryArgs,
          stmt, dbCalls, storeReply, outcome, response, log, DEFAULT_EXCLUDED,
          request, earlier>>

----------------------------------------------------------------------------
(* Bounds of the model.                                                    *)

\* longest 'limit' string given to validateLimit
MaxLimitLen == 4
\* most pieces an 'excluded' string given to validateExcluded is made of
MaxChunks == 4
\* most pieces the 'limit' string of a whole request is made of
MaxReqLimitChunks == 2
\* most pieces of the 'excluded' string of a whole request
MaxReqChunks == 2
\* most rows the row store holds back for one call
MaxRows == 2
\* most entries of a map given to getRandomTranscriptsWithSpeaker directly
MaxEntries == 2

----------------------------------------------------------------------------
(* JavaScript values and string primitives.                                *)

Undefined == [t |-> "undefined", s |-> <<>>, a |-> <<>>]
Str(s) == [t |-> "string", s |-> s, a |-> <<>>]
Arr(a) == [t |-> "array", s |-> <<>>, a |-> a]

\* Variant of Falsy: only undefined is taken as missing (value === undefined).
Falsy_UndefinedOnly(value) == value.t = "undefined"

\* !value: undefined and the empty string are falsy, an array never is
Falsy(value) == value.t = "undefined" \/ (value.t = "string" /\ value.s = <<>>)

WhiteSpace == {" ", "\t", "\n", "\r"}

DecDigits == <<"0", "1", "2", "3", "4", "5", "6", "7", "8", "9">>
HexLower == <<"a", "b", "c", "d", "e", "f">>
HexUpper == <<"A", "B", "C", "D", "E", "F">>

IndexOf(seq, c) == IF \E i \in 1..Len(seq) : seq[i] = c
                   THEN CHOOSE i \in 1..Len(seq) : seq[i] = c
                   ELSE 0

\* value of character c as a digit, or -1 when it is none
DigitValue(c) ==
  IF IndexOf(DecDigits, c) > 0 THEN IndexOf(DecDigits, c) - 1
  ELSE IF IndexOf(HexLower, c) > 0 THEN IndexOf(HexLower, c) + 9
  ELSE IF IndexOf(HexUpper, c) > 0 THEN IndexOf(HexUpper, c) + 9
  ELSE -1

IsDigit(c, radix) == DigitValue(c) >= 0 /\ DigitValue(c) < radix

Drop(s, n) == SubSeq(s, n + 1, Len(s))

RECURSIVE TrimStart(_)
TrimStart(s) == IF s # <<>> /\ s[1] \in WhiteSpace THEN TrimStart(Tail(s)) ELSE s

RECURSIVE TrimEnd(_)
TrimEnd(s) == IF s # <<>> /\ s[Len(s)] \in WhiteSpace
              THEN TrimEnd(SubSeq(s, 1, Len(s) - 1))
              ELSE s

\* String.prototype.trim
Trim(s) == TrimEnd(TrimStart(s))

\* String.prototype.split(sep) for a one-character separator: never empty
RECURSIVE SplitFrom(_, _, _)
SplitFrom(s, sep, cur) ==
  IF s = <<>> THEN <<cur>>
  ELSE IF s[1] = sep THEN <<cur>> \o SplitFrom(Tail(s), sep, <<>>)
  ELSE SplitFrom(Tail(s), sep, Append(cur, s[1]))

Split(s, sep) == SplitFrom(s, sep, <<>>)

\* Array.prototype.join(sep)
RECURSIVE Join(_, _)
Join(parts, sep) ==
  IF parts = <<>> THEN <<>>
  ELSE IF Len(parts) = 1 THEN parts[1]
  ELSE parts[1] \o <<sep>> \o Join(Tail(parts), sep)

\* the digits of a number in a template literal: `${n}`
RECURSIVE NatToString(_)
NatToString(n) == IF n < 10 THEN <<DecDigits[n + 1]>>
                  ELSE NatToString(n \div 10) \o <<DecDigits[(n % 10) + 1]>>

NumberToString(n) == IF n < 0 THEN <<"-">> \o NatToString(-n) ELSE NatToString(n)

\* `${value}` of a query value: a string as it is, an array joined with ","
ValueToString(value) ==
  IF value.t = "string" THEN value.s
  ELSE IF value.t = "array" THEN Join(value.a, ",")
  ELSE <<"undefined">>

----------------------------------------------------------------------------
(* parseInt(string) with no radix argument.                                *)

NaN == [nan |-> TRUE, n |-> 0]
Num(n) == [nan |-> FALSE, n |-> n]

\* the value of the longest prefix of s made of digits of the radix; acc is
\* the value so far and seen tells whether any digit was read
RECURSIVE ParseDigits(_, _, _, _)
ParseDigits(s, radix, acc, seen) ==
  IF s # <<>> /\ IsDigit(s[1], radix)
  THEN ParseDigits(Tail(s), radix, acc * radix + DigitValue(s[1]), TRUE)
  ELSE IF seen THEN Num(acc) ELSE NaN

HasHexPrefix(s) == Len(s) >= 2 /\ s[1] = "0" /\ s[2] \in {"x", "X"}

\* Variant of parseInt: the whole string must be a decimal number, as Number()
\* would have it.
parseInt_WholeString(str) ==
  LET r == ParseDigits(str, 10, 0, FALSE)
  IN IF str # <<>> /\ \A i \in 1..Len(str) : IsDigit(str[i], 10) THEN r ELSE NaN

parseInt(str) ==
  LET s1 == TrimStart(str)
      neg == s1 # <<>> /\ s1[1] = "-"
      s2 == IF s1 # <<>> /\ s1[1] \in {"+", "-"} THEN Tail(s1) ELSE s1
      radix == IF HasHexPrefix(s2) THEN 16 ELSE 10
      s3 == IF HasHexPrefix(s2) THEN Drop(s2, 2) ELSE s2
      r == ParseDigits(s3, radix, 0, FALSE)
  IN IF r.nan THEN NaN ELSE IF neg THEN Num(-r.n) ELSE r

----------------------------------------------------------------------------
(* validators.ts                                                           *)

MIN_LIMIT == 1
MAX_LIMIT == 100

\* c.json({ error }, 400)
\* Variant of jsonError: the message is replaced by a generic one.
jsonError_Generic(error) == [isResponse |-> TRUE, status |-> 400, error |-> <<"Bad request">>]

jsonError(error) == [isResponse |-> TRUE, status |-> 400, error |-> error]

NotANumberMessage_Trimmed(value) ==
  <<"'limit' must be a number: ">> \o Trim(ValueToString(value))

\* `'limit' must be a number: ${value}`
NotANumberMessage(value) == <<"'limit' must be a number: ">> \o ValueToString(value)

\* Variant of validateLimit: the upper bound is not checked.
validateLimit_NoUpperBound(value) ==
  IF Falsy(value) THEN [isResponse |-> FALSE, limit |-> MIN_LIMIT]
  ELSE IF value.t # "string"
  THEN jsonError(NotANumberMessage(value))
  ELSE LET limit == parseInt(value.s)
       IN IF limit.nan
          THEN jsonError(NotANumberMessage(value))
          ELSE IF limit.n < MIN_LIMIT
          THEN jsonError(<<"'limit' must be greater or equal to ">>
                         \o NumberToString(MIN_LIMIT))
          ELSE [isResponse |-> FALSE, limit |-> limit.n]

\* Variant of validateLimit: a value out of range is clamped into it.
validateLimit_Clamped(value) ==
  IF Falsy(value) THEN [isResponse |-> FALSE, limit |-> MIN_LIMIT]
  ELSE IF value.t # "string" THEN jsonError(NotANumberMessage(value))
  ELSE LET limit == parseInt(value.s)
       IN IF limit.nan THEN jsonError(NotANumberMessage(value))
          ELSE IF limit.n < MIN_LIMIT THEN [isResponse |-> FALSE, limit |-> MIN_LIMIT]
          ELSE IF limit.n > MAX_LIMIT THEN [isResponse |-> FALSE, limit |-> MAX_LIMIT]
          ELSE [isResponse |-> FALSE, limit |-> limit.n]

validateLimit(value) ==
  IF Falsy(value) THEN [isResponse |-> FALSE, limit |-> MIN_LIMIT]
  ELSE IF value.t # "string"
  THEN jsonError(NotANumberMessage(value))
  ELSE LET limit == parseInt(value.s)
       IN IF limit.nan
          THEN jsonError(NotANumberMessage(value))
          ELSE IF limit.n < MIN_LIMIT
          THEN jsonError(<<"'limit' must be greater or equal to ">>
                         \o NumberToString(MIN_LIMIT))
          ELSE IF limit.n > MAX_LIMIT
          THEN jsonError(<<"'limit' must be less or equal to ">>
                         \o NumberToString(MAX_LIMIT))
          ELSE [isResponse |-> FALSE, limit |-> limit.n]

\* Variant of MapSet: an existing key is moved to the end of the map.
MapSet_MoveToEnd(map, key, value) ==
  Append(SelectSeq(map, LAMBDA e : e.key # key), [key |-> key, value |-> value])

\* Variant of MapSet: the value of an existing key is extended, not replaced.
MapSet_Merge(map, key, value) ==
  IF \E i \in 1..Len(map) : map[i].key = key
  THEN [i \in 1..Len(map) |->
          IF map[i].key = key
          THEN [key |-> key,
                value |-> map[i].value
                            \o SelectSeq(value, LAMBDA x :
                                 \A j \in 1..Len(map[i].value) : map[i].value[j] # x)]
          ELSE map[i]]
  ELSE Append(map, [key |-> key, value |-> value])

\* Map.prototype.set on an insertion-ordered map, a sequence of [key, value]:
\* an existing key keeps its position and takes the new value
MapSet(map, key, value) ==
  IF \E i \in 1..Len(map) : map[i].key = key
  THEN [i \in 1..Len(map) |->
          IF map[i].key = key THEN [key |-> key, value |-> value] ELSE map[i]]
  ELSE Append(map, [key |-> key, value |-> value])

\* new Set(array): the distinct elements in order of first occurrence
RECURSIVE SetOf(_, _)
SetOf(array, acc) ==
  IF array = <<>> THEN acc
  ELSE IF \E i \in 1..Len(acc) : acc[i] = array[1]
  THEN SetOf(Tail(array), acc)
  ELSE SetOf(Tail(array), Append(acc, array[1]))

NewSet(array) == SetOf(array, <<>>)

\* Variant of TrimAndFilter: the candidates are filtered on their trimmed text but
\* kept untrimmed (.filter((sequence) => sequence.trim() !== "")).
RECURSIVE TrimAndFilter_KeepUntrimmed(_)
TrimAndFilter_KeepUntrimmed(parts) ==
  IF parts = <<>> THEN <<>>
  ELSE IF Trim(parts[1]) = <<>> THEN TrimAndFilter_KeepUntrimmed(Tail(parts))
  ELSE <<parts[1]>> \o TrimAndFilter_KeepUntrimmed(Tail(parts))

\* sequences.split(",").map(trim).filter(sequence !== "")
RECURSIVE TrimAndFilter(_)
TrimAndFilter(parts) ==
  IF parts = <<>> THEN <<>>
  ELSE IF Trim(parts[1]) = <<>> THEN TrimAndFilter(Tail(parts))
  ELSE <<Trim(parts[1])>> \o TrimAndFilter(Tail(parts))

SequenceArray(sequences) == TrimAndFilter(Split(sequences, ","))

\* Variant of MalformedMessage: the trimmed entry is echoed.
MalformedMessage_Trimmed(item) ==
  <<"'excluded' must be in format id=sequence1,sequence2;id2=sequence3,sequence4: ">>
    \o Trim(item)

MalformedMessage(item) ==
  <<"'excluded' must be in format id=sequence1,sequence2;id2=sequence3,sequence4: ">>
    \o item

\* Variant of EmptySequencesMessage: the trimmed entry is echoed.
EmptySequencesMessage_Trimmed(id, item) ==
  <<"'excluded' must have at least one sequence for id ">> \o id \o <<": ">>
    \o Trim(item)

EmptySequencesMessage(id, item) ==
  <<"'excluded' must have at least one sequence for id ">> \o id \o <<": ">> \o item

\* Variant of SkipItem: no entry is skipped.
SkipItem_Never(trimmedItem) == FALSE

\* if (!trimmedItem) continue
SkipItem(trimmedItem) == trimmedItem = <<>>

\* Variant of Malformed: the id is not looked at (if (!sequences)).
Malformed_IdUnchecked(parts) == Len(parts) < 2 \/ parts[2] = <<>>

\* const [id, sequences] = trimmedItem.split("="); if (!id || !sequences):
\* sequences is undefined when the split has one part only
\* Variant of Malformed: an entry with more than one '=' is malformed.
Malformed_Strict(parts) == Len(parts) # 2 \/ parts[1] = <<>> \/ parts[2] = <<>>

Malformed(parts) == parts[1] = <<>> \/ Len(parts) < 2 \/ parts[2] = <<>>

\* Variant of ExcludedLoop: the entries after an invalid one are examined
\* too, and the error of the last invalid entry is returned.
RECURSIVE ExcludedLoop_RightmostError(_, _, _)
ExcludedLoop_RightmostError(items, i, excluded) ==
  IF i > Len(items) THEN [isResponse |-> FALSE, excluded |-> excluded]
  ELSE LET item == items[i]
           trimmedItem == Trim(item)
           parts == Split(trimmedItem, "=")
           rest == ExcludedLoop_RightmostError(items, i + 1, excluded)
       IN IF SkipItem(trimmedItem) THEN rest
          ELSE IF Malformed(parts)
          THEN IF rest.isResponse THEN rest ELSE jsonError(MalformedMessage(item))
          ELSE IF Len(SequenceArray(parts[2])) = 0
          THEN IF rest.isResponse THEN rest
               ELSE jsonError(EmptySequencesMessage(parts[1], item))
          ELSE ExcludedLoop_RightmostError(
                 items, i + 1, MapSet(excluded, parts[1], NewSet(SequenceArray(parts[2]))))

\* the for loop of validateExcluded over items[i..], excluded being the map so far
RECURSIVE ExcludedLoop(_, _, _)
ExcludedLoop(items, i, excluded) ==
  IF i > Len(items) THEN [isResponse |-> FALSE, excluded |-> excluded]
  ELSE LET item == items[i]
           trimmedItem == Trim(item)
           parts == Split(trimmedItem, "=")
       IN IF SkipItem(trimmedItem) THEN ExcludedLoop(items, i + 1, excluded)
          ELSE IF Malformed(parts) THEN jsonError(MalformedMessage(item))
          ELSE IF Len(SequenceArray(parts[2])) = 0
          THEN jsonError(EmptySequencesMessage(parts[1], item))
          ELSE ExcludedLoop(items, i + 1,
                            MapSet(excluded, parts[1], NewSet(SequenceArray(parts[2]))))

\* Variant of validateExcluded: the type is checked before the value is tested
\* for being missing.
validateExcluded_TypeFirst(value) ==
  IF value.t # "string"
  THEN jsonError(<<"'excluded' must be a string: ">> \o ValueToString(value))
  ELSE IF Falsy(value) THEN [isResponse |-> FALSE, excluded |-> DEFAULT_EXCLUDED]
  ELSE ExcludedLoop(Split(value.s, ";"), 1, <<>>)

validateExcluded(value) ==
  IF Falsy(value) THEN [isResponse |-> FALSE, excluded |-> DEFAULT_EXCLUDED]
  ELSE IF value.t # "string"
  THEN jsonError(<<"'excluded' must be a string: ">> \o ValueToString(value))
  ELSE ExcludedLoop(Split(value.s, ";"), 1, <<>>)

\* Variant of validators: both parameters are validated before either result is
\* looked at, the exclusion error coming first.
validators_ExcludedFirst(limit, excluded) ==
  LET limitRes == validateLimit(limit)
      excludedRes == validateExcluded(excluded)
  IN IF excludedRes.isResponse
     THEN [result |-> excludedRes, calls |-> <<"validateLimit", "validateExcluded">>,
           limitResult |-> limitRes, excludedResult |-> excludedRes]
     ELSE IF limitRes.isResponse
     THEN [result |-> limitRes, calls |-> <<"validateLimit", "validateExcluded">>,
           limitResult |-> limitRes, excludedResult |-> excludedRes]
     ELSE [result |-> [isResponse |-> FALSE, limit |-> limitRes.limit,
                       excluded |-> excludedRes.excluded],
           calls |-> <<"validateLimit", "validateExcluded">>,
           limitResult |-> limitRes, excludedResult |-> excludedRes]

\* the validator("query", ...) callback: the value it returns and the
\* validation functions it invoked on the way
validators(limit, excluded) ==
  LET limitRes == validateLimit(limit)
      excludedRes == validateExcluded(excluded)
  IN IF limitRes.isResponse
     THEN [result |-> limitRes, calls |-> <<"validateLimit">>,
           limitResult |-> limitRes, excludedResult |-> [notCalled |-> TRUE]]
     ELSE IF excludedRes.isResponse
     THEN [result |-> excludedRes, calls |-> <<"validateLimit", "validateExcluded">>,
           limitResult |-> limitRes, excludedResult |-> excludedRes]
     ELSE [result |-> [isResponse |-> FALSE, limit |-> limitRes.limit,
                       excluded |-> excludedRes.excluded],
           calls |-> <<"validateLimit", "validateExcluded">>,
           limitResult |-> limitRes, excludedResult |-> excludedRes]

----------------------------------------------------------------------------
(* queries.ts: the text of the query is a sequence of pieces, each "?" a    *)
(* piece of its own; a bind value is a string or a number.                 *)

NumVal(n) == [t |-> "number", n |-> n]

\* Array.from(excluded.entries()).filter(([, sequences]) => sequences.size > 0)
RECURSIVE ValidEntries(_)
ValidEntries(excluded) ==
  IF excluded = <<>> THEN <<>>
  ELSE IF Len(excluded[1].value) > 0
  THEN <<excluded[1]>> \o ValidEntries(Tail(excluded))
  ELSE ValidEntries(Tail(excluded))

\* Variant of Placeholders: one placeholder more than the set has sequences.
Placeholders_OneMore(size) == [i \in 1..(size + 1) |-> <<"?">>]

\* Array.from({ length: size }, () => "?")
Placeholders(size) == [i \in 1..size |-> <<"?">>]

Condition(sequences) ==
  <<"(t.speaker_id = ", "?", " AND t.sequence IN (">>
    \o Join(Placeholders(Len(sequences)), ", ") \o <<"))">>

\* Variant of Conditions: the conditions come out in reverse order.
Conditions_Reversed(entries) ==
  [i \in 1..Len(entries) |-> Condition(entries[Len(entries) + 1 - i].value)]

Conditions(entries) == [i \in 1..Len(entries) |-> Condition(entries[i].value)]

\* Variant of getRandomTranscriptsWithSpeakerWhereClause: the conditions are
\* not counted after the filter.
getRandomTranscriptsWithSpeakerWhereClause_NoRecheck(excluded) ==
  IF Len(excluded) = 0 THEN <<>>
  ELSE <<"WHERE NOT (">> \o Join(Conditions(ValidEntries(excluded)), " OR ") \o <<")">>

getRandomTranscriptsWithSpeakerWhereClause(excluded) ==
  IF Len(excluded) = 0 THEN <<>>
  ELSE IF Len(Conditions(ValidEntries(excluded))) = 0 THEN <<>>
  ELSE <<"WHERE NOT (">> \o Join(Conditions(ValidEntries(excluded)), " OR ") \o <<")">>

SelectFrom ==
  "SELECT t.transcript, t.sequence, t.speaker_id AS speaker, s.age, s.gender, s.accent, s.region FROM transcripts AS t INNER JOIN speakers AS s ON t.speaker_id = s.id "

\* db.prepare(`...`)
QueryText(excluded) ==
  <<SelectFrom>> \o getRandomTranscriptsWithSpeakerWhereClause(excluded)
    \o <<" ORDER BY RANDOM() LIMIT ", "?", ";">>

\* Variant of FlatBinds: each entry's sequences come before its speaker id.
RECURSIVE FlatBinds_SequencesFirst(_)
FlatBinds_SequencesFirst(entries) ==
  IF entries = <<>> THEN <<>>
  ELSE [i \in 1..Len(entries[1].value) |-> Str(entries[1].value[i])]
         \o <<Str(entries[1].key)>>
         \o FlatBinds_SequencesFirst(Tail(entries))

\* Variant of FlatBinds: only the sequences are bound, not the speaker id.
RECURSIVE FlatBinds_NoSpeaker(_)
FlatBinds_NoSpeaker(entries) ==
  IF entries = <<>> THEN <<>>
  ELSE [i \in 1..Len(entries[1].value) |-> Str(entries[1].value[i])]
         \o FlatBinds_NoSpeaker(Tail(entries))

\* validEntries.flatMap(([speakerId, sequences]) => [speakerId, ...sequences])
RECURSIVE FlatBinds(_)
FlatBinds(entries) ==
  IF entries = <<>> THEN <<>>
  ELSE <<Str(entries[1].key)>>
         \o [i \in 1..Len(entries[1].value) |-> Str(entries[1].value[i])]
         \o FlatBinds(Tail(entries))

\* Variant of BoundStatement: the entries with empty sets are bound too.
BoundStatement_AllEntries(limit, excluded) ==
  [text |-> QueryText(excluded),
   binds |-> IF Len(excluded) > 0
             THEN FlatBinds(excluded) \o <<NumVal(limit)>>
             ELSE <<NumVal(limit)>>,
   bindCalls |-> 1]

\* Variant of BoundStatement: the limit is bound first.
BoundStatement_LimitFirst(limit, excluded) ==
  [text |-> QueryText(excluded),
   binds |-> IF Len(ValidEntries(excluded)) > 0
             THEN <<NumVal(limit)>> \o FlatBinds(ValidEntries(excluded))
             ELSE <<NumVal(limit)>>,
   bindCalls |-> 1]

\* the statement getRandomTranscriptsWithSpeaker prepares and binds
BoundStatement(limit, excluded) ==
  [text |-> QueryText(excluded),
   binds |-> IF Len(ValidEntries(excluded)) > 0
             THEN FlatBinds(ValidEntries(excluded)) \o <<NumVal(limit)>>
             ELSE <<NumVal(limit)>>,
   bindCalls |-> 1]

NoStatement == [text |-> <<>>, binds |-> <<>>, bindCalls |-> 0]

\* Variant of ReturnRows: an absent region is returned as an empty string.
ReturnRows_RegionCoerced(results) ==
  [i \in 1..Len(results) |->
     IF results[i].hasRegion THEN results[i]
     ELSE [results[i] EXCEPT !.hasRegion = TRUE, !.region = ""]]

\* const { results } = await stmt.all(); return results
ReturnRows(results) == results

----------------------------------------------------------------------------
(* params.ts and the fetch handler that uses it: a parameter is a string   *)
(* or null (Undefined here), a ParamsError is [thrown |-> TRUE, message].  *)

LowerLetters ==
  <<"a", "b", "c", "d", "e", "f", "g", "h", "i", "j", "k", "l", "m",
    "n", "o", "p", "q", "r", "s", "t", "u", "v", "w", "x", "y", "z">>

UpperLetters ==
  <<"A", "B", "C", "D", "E", "F", "G", "H", "I", "J", "K", "L", "M",
    "N", "O", "P", "Q", "R", "S", "T", "U", "V", "W", "X", "Y", "Z">>

\* String.prototype.toUpperCase
toUpperCase(s) ==
  [i \in 1..Len(s) |->
     IF IndexOf(LowerLetters, s[i]) > 0 THEN UpperLetters[IndexOf(LowerLetters, s[i])]
     ELSE s[i]]

\* String.prototype.toLowerCase
toLowerCase(s) ==
  [i \in 1..Len(s) |->
     IF IndexOf(UpperLetters, s[i]) > 0 THEN LowerLetters[IndexOf(UpperLetters, s[i])]
     ELSE s[i]]

FaviconPath == <<"/", "f", "a", "v", "i", "c", "o", "n", ".", "i", "c", "o">>

CacheControl == "public, max-age=604800, immutable"

\* throw new ParamsError(message)
ParamsError(message) == [thrown |-> TRUE, message |-> message]

\* checkMethod: whether it returns without throwing
MethodAllowed(method) ==
  toUpperCase(method) \in { <<"G", "E", "T">>, <<"O", "P", "T", "I", "O", "N", "S">> }

isFavicon(path) == toLowerCase(path) = FaviconPath

\* checkPath: whether it returns without throwing
PathAllowed(path) == path = <<"/">> \/ isFavicon(path)

\* validateLimit of params.ts
params_validateLimit(limit) ==
  IF Falsy(limit) THEN [thrown |-> FALSE, limit |-> MIN_LIMIT]
  ELSE LET limitNumber == parseInt(limit.s)
       IN IF limitNumber.nan
          THEN ParamsError(<<"Limit must be a number: ">> \o limit.s)
          ELSE IF limitNumber.n < MIN_LIMIT
          THEN ParamsError(<<"Limit must be greater or equal to ">>
                           \o NumberToString(MIN_LIMIT))
          ELSE IF limitNumber.n > MAX_LIMIT
          THEN ParamsError(<<"Limit must be less or equal to ">>
                           \o NumberToString(MAX_LIMIT))
          ELSE [thrown |-> FALSE, limit |-> limitNumber.n]

\* sequences.split(",").filter((sequence) => sequence.trim() !== "")
params_SequenceArray(sequences) ==
  SelectSeq(Split(sequences, ","), LAMBDA sequence : Trim(sequence) # <<>>)

\* the reduce callback of validateExcluded of params.ts, from item i on
RECURSIVE params_Reduce(_, _, _)
params_Reduce(items, i, acc) ==
  IF i > Len(items) THEN [thrown |-> FALSE, excluded |-> acc]
  ELSE LET item == items[i]
           parts == Split(item, "=")
       IN IF parts[1] = <<>> \/ Len(parts) < 2 \/ parts[2] = <<>>
          THEN ParamsError(
                 <<"Excluded must be in format id=sequence1,sequence2;id2=sequence3,sequence4: ">>
                   \o item)
          ELSE IF Len(params_SequenceArray(parts[2])) = 0
          THEN ParamsError(<<"Excluded must have at least one sequence for id ">>
                             \o parts[1] \o <<": ">> \o item)
          ELSE params_Reduce(items, i + 1,
                             MapSet(acc, parts[1], NewSet(params_SequenceArray(parts[2]))))

\* validateExcluded of params.ts
params_validateExcluded(excluded) ==
  IF Falsy(excluded) THEN [thrown |-> FALSE, excluded |-> DEFAULT_EXCLUDED]
  ELSE params_Reduce(Split(excluded.s, ";"), 1, <<>>)

\* getParams: checkMethod, checkPath, then the object literal, whose
\* properties are evaluated in order
getParams(method, path, limit, excluded) ==
  IF ~MethodAllowed(method) THEN ParamsError(<<"Method must be GET">>)
  ELSE IF ~PathAllowed(path) THEN ParamsError(<<"Path must be /">>)
  ELSE IF params_validateLimit(limit).thrown THEN params_validateLimit(limit)
  ELSE IF params_validateExcluded(excluded).thrown THEN params_validateExcluded(excluded)
  ELSE [thrown |-> FALSE, isFavicon |-> isFavicon(path),
        limit |-> params_validateLimit(limit).limit,
        excluded |-> params_validateExcluded(excluded).excluded]

----------------------------------------------------------------------------
(* The inputs.                                                             *)

SeqsUpTo(S, n) == UNION {[1..k -> S] : k \in 0..n}

RECURSIVE Flatten(_)
Flatten(chunks) == IF chunks = <<>> THEN <<>> ELSE chunks[1] \o Flatten(Tail(chunks))

\* a parameter given twice in the query string arrives as an array
RepeatedValues == {Arr(<<<<"1">>, <<"a">>>>), Arr(<<<<"a", "=", "1">>, <<>>>>)}

LimitAlphabet == {"0", "1", "5", "-", "+", ".", "a", "x", " "}

LimitInputs ==
  {Undefined} \cup RepeatedValues \cup {Str(s) : s \in SeqsUpTo(LimitAlphabet, MaxLimitLen)}

ExcludedChunks ==
  { <<"a">>, <<"1">>, <<";">>, <<"=">>, <<",">>, <<" ">>,
    <<"a", "=", "1">>, <<"a", "=", "2">>, <<",", "1">>,
    <<";", "b", "=", "2", ";">>, <<"a", "=", ",">> }

ExcludedInputs ==
  {Undefined} \cup RepeatedValues
    \cup {Str(Flatten(cs)) : cs \in SeqsUpTo(ExcludedChunks, MaxChunks)}

ReqLimitChunks == { <<"1">>, <<"0">>, <<"a">>, <<"1", "0">> }

ReqLimitInputs ==
  {Undefined, Arr(<<<<"1">>, <<"a">>>>)}
    \cup {Str(Flatten(cs)) : cs \in SeqsUpTo(ReqLimitChunks, MaxReqLimitChunks)}

ReqExcludedChunks ==
  { <<"a", "=", "1">>, <<"b", "=", "2">>, <<";">>, <<"a">>,
    <<"a", "=", "1", ";", "b", "=", "2", ";", "a", "=", "3">> }

ReqExcludedInputs ==
  {Undefined, Arr(<<<<"a", "=", "1">>, <<>>>>)}
    \cup {Str(Flatten(cs)) : cs \in SeqsUpTo(ReqExcludedChunks, MaxReqChunks)}

\* what the fetch handler is tried on: request.method, url.pathname and the
\* two values url.searchParams.get returns
FetchMethods == { <<"G", "E", "T">>, <<"g", "e", "t">>, <<"P", "O", "S", "T">> }

FetchPaths == { <<"/">>, FaviconPath, toUpperCase(FaviconPath), <<"/", "x">> }

FetchLimits == {Undefined, Str(<<"5">>), Str(<<"a">>), Str(<<"0">>)}

FetchExcludeds ==
  {Undefined, Str(<<"a", "=", "1">>), Str(<<"a">>), Str(<<"a", "=", " ", "1", ",", ",">>)}

\* the values the validators are run on again and again
RepeatLimits == {Undefined, Str(<<"5">>), Str(<<"a">>)}

RepeatExcludeds ==
  {Undefined, Str(<<"a", "=", "1">>), Str(<<"a", "=", "1", ";", "a", "=", "2">>),
   Str(<<"a">>)}

QueryKeys == { <<"a">>, <<"b">>, <<"c">> }

QuerySequences == { <<"1">>, <<"2">> }

\* a Set<string> in iteration order: no sequence twice; the empty set is one
SequenceSets ==
  {set \in SeqsUpTo(QuerySequences, Cardinality(QuerySequences)) :
     \A i, j \in 1..Len(set) : i # j => set[i] # set[j]}

\* a Map<string, Set<string>> in iteration order: no key twice
ExclusionMaps ==
  {map \in SeqsUpTo([key : QueryKeys, value : SequenceSets], MaxEntries) :
     \A i, j \in 1..Len(map) : i # j => map[i].key # map[j].key}

QueryLimits == {0, 1, 3}

QueryInputs == [limit : QueryLimits, excluded : ExclusionMaps]

----------------------------------------------------------------------------
(* The row store.                                                          *)

Row(speaker, sequence, hasRegion) ==
  [transcript |-> "t", sequence |-> sequence, speaker |-> speaker, age |-> 25,
   gender |-> "female", accent |-> "american", hasRegion |-> hasRegion,
   region |-> IF hasRegion THEN "north" ELSE "absent"]

Table == { Row(<<"a">>, <<"1">>, TRUE), Row(<<"a">>, <<"2">>, FALSE),
           Row(<<"b">>, <<"2">>, TRUE) }

StoreErrors == {"Database connection failed", "SQL syntax error"}

\* the pieces of the query text between FROM ... and ORDER BY
WherePieces(text) == SubSeq(text, 2, Len(text) - 3)

PlaceholderCount(text) == Cardinality({i \in 1..Len(text) : text[i] = "?"})

\* whether the row satisfies one of the OR-ed conditions, each "?" standing
\* for the next bind value: speakerIs and sequenceIn hold what the condition
\* being read has matched so far, any whether an earlier condition matched
RECURSIVE MatchesAny(_, _, _, _, _, _)
MatchesAny(text, binds, row, speakerIs, sequenceIn, any) ==
  IF text = <<>> THEN any
  ELSE IF text[1] = "(t.speaker_id = "
  THEN MatchesAny(Drop(text, 2), Tail(binds), row, binds[1] = Str(row.speaker), FALSE, any)
  ELSE IF text[1] = "?"
  THEN MatchesAny(Tail(text), Tail(binds), row, speakerIs,
                  sequenceIn \/ binds[1] = Str(row.sequence), any)
  ELSE IF text[1] = "))"
  THEN MatchesAny(Tail(text), binds, row, FALSE, FALSE, any \/ (speakerIs /\ sequenceIn))
  ELSE MatchesAny(Tail(text), binds, row, speakerIs, sequenceIn, any)

\* WHERE NOT (...), or every row when the text has no WHERE
Eligible(statement, row) ==
  \/ WherePieces(statement.text) = <<>>
  \/ ~MatchesAny(WherePieces(statement.text), statement.binds, row, FALSE, FALSE, FALSE)

\* the row lists stmt.all() may resolve with: rows of the table the WHERE
\* keeps, no row twice, at most LIMIT ? of them; none when the bind values do
\* not fit the placeholders
StoreResults(statement) ==
  IF PlaceholderCount(statement.text) # Len(statement.binds) THEN {}
  ELSE {rows \in SeqsUpTo(Table, MaxRows) :
          /\ \A i, j \in 1..Len(rows) : i # j => rows[i] # rows[j]
          /\ \A i \in 1..Len(rows) : Eligible(statement, rows[i])
          /\ Len(rows) <= statement.binds[Len(statement.binds)].n}

----------------------------------------------------------------------------
(* State.                                                                  *)

NoResult == [notCalled |-> TRUE]
NoResponse == [status |-> 0]
NoArgs == [given |-> FALSE]
NoReply == [kind |-> "none"]
NoOutcome == [kind |-> "none"]
NoEarlier == [seen |-> FALSE]
NoRequest == [handler |-> "none", method |-> <<>>, path |-> <<>>]

Idle ==
  /\ rawLimit = Undefined
  /\ rawExcluded = Undefined
  /\ limitResult = NoResult
  /\ excludedResult = NoResult
  /\ calls = <<>>
  /\ queryArgs = NoArgs
  /\ stmt = NoStatement
  /\ dbCalls = 0
  /\ storeReply = NoReply
  /\ outcome = NoOutcome
  /\ response = NoResponse
  /\ log = <<>>
  /\ DEFAULT_EXCLUDED = <<>>
  /\ request = NoRequest
  /\ earlier = NoEarlier

----------------------------------------------------------------------------
(* validateLimit alone, on every 'limit' value.                            *)

InitLimit ==
  /\ pc = "call"
  /\ rawLimit \in LimitInputs
  /\ rawExcluded = Undefined
  /\ limitResult = NoResult
  /\ excludedResult = NoResult
  /\ calls = <<>>
  /\ queryArgs = NoArgs
  /\ stmt = NoStatement
  /\ dbCalls = 0
  /\ storeReply = NoReply
  /\ outcome = NoOutcome
  /\ response = NoResponse
  /\ log = <<>>
  /\ DEFAULT_EXCLUDED = <<>>
  /\ request = NoRequest
  /\ earlier = NoEarlier

CallValidateLimit ==
  /\ pc = "call"
  /\ limitResult' = validateLimit(rawLimit)
  /\ calls' = Append(calls, "validateLimit")
  /\ pc' = "returned"
  /\ UNCHANGED <<rawLimit, rawExcluded, excludedResult, queryArgs, stmt, dbCalls,
                 storeReply, outcome, response, log, DEFAULT_EXCLUDED,
                 request,
                 earlier>>

NextLimit == CallValidateLimit

SpecLimit == InitLimit /\ [][NextLimit]_vars

----------------------------------------------------------------------------
(* validateExcluded alone, on every 'excluded' value.                      *)

InitExcluded ==
  /\ pc = "call"
  /\ rawLimit = Undefined
  /\ rawExcluded \in ExcludedInputs
  /\ limitResult = NoResult
  /\ excludedResult = NoResult
  /\ calls = <<>>
  /\ queryArgs = NoArgs
  /\ stmt = NoStatement
  /\ dbCalls = 0
  /\ storeReply = NoReply
  /\ outcome = NoOutcome
  /\ response = NoResponse
  /\ log = <<>>
  /\ DEFAULT_EXCLUDED = <<>>
  /\ request = NoRequest
  /\ earlier = NoEarlier

CallValidateExcluded ==
  /\ pc = "call"
  /\ excludedResult' = validateExcluded(rawExcluded)
  /\ calls' = Append(calls, "validateExcluded")
  /\ pc' = "returned"
  /\ UNCHANGED <<rawLimit, rawExcluded, limitResult, queryArgs, stmt, dbCalls,
                 storeReply, outcome, response, log, DEFAULT_EXCLUDED,
                 request,
                 earlier>>

NextExcluded == CallValidateExcluded

SpecExcluded == InitExcluded /\ [][NextExcluded]_vars

----------------------------------------------------------------------------
(* getRandomTranscriptsWithSpeaker alone, on every limit and map.          *)

InitQuery ==
  /\ pc = "call"
  /\ rawLimit = Undefined
  /\ rawExcluded = Undefined
  /\ limitResult = NoResult
  /\ excludedResult = NoResult
  /\ calls = <<>>
  /\ queryArgs \in QueryInputs
  /\ stmt = NoStatement
  /\ dbCalls = 0
  /\ storeReply = NoReply
  /\ outcome = NoOutcome
  /\ response = NoResponse
  /\ log = <<>>
  /\ DEFAULT_EXCLUDED = <<>>
  /\ request = NoRequest
  /\ earlier = NoEarlier

\* db.prepare(...), prepared.bind(...), stmt.all() up to its await
CallQuery ==
  /\ pc = "call"
  /\ stmt' = BoundStatement(queryArgs.limit, queryArgs.excluded)
  /\ dbCalls' = dbCalls + 1
  /\ pc' = "awaiting"
  /\ UNCHANGED <<rawLimit, rawExcluded, limitResult, excludedResult, calls, queryArgs,
                 storeReply, outcome, response, log, DEFAULT_EXCLUDED,
                 request,
                 earlier>>

\* stmt.all() resolves: return results
QueryResolve(results) ==
  /\ pc = "awaiting"
  /\ storeReply' = [kind |-> "resolved", results |-> results]
  /\ outcome' = [kind |-> "returned", rows |-> ReturnRows(results)]
  /\ pc' = "returned"
  /\ UNCHANGED <<rawLimit, rawExcluded, limitResult, excludedResult, calls, queryArgs,
                 stmt, dbCalls, response, log, DEFAULT_EXCLUDED,
                 request,
                 earlier>>

\* Variant of QueryReject: a rejected call is issued again, up to three times.
QueryReject_Retry(err) ==
  /\ pc = "awaiting"
  /\ storeReply' = [kind |-> "rejected", error |-> err]
  /\ IF dbCalls < 3
     THEN dbCalls' = dbCalls + 1 /\ pc' = "awaiting" /\ UNCHANGED outcome
     ELSE outcome' = [kind |-> "thrown", error |-> err] /\ pc' = "thrown"
            /\ UNCHANGED dbCalls
  /\ UNCHANGED <<rawLimit, rawExcluded, limitResult, excludedResult, calls, queryArgs,
                 stmt, response, log, DEFAULT_EXCLUDED,
                 request,
                 earlier>>

\* stmt.all() rejects: the await throws the error out of the function
QueryReject(err) ==
  /\ pc = "awaiting"
  /\ storeReply' = [kind |-> "rejected", error |-> err]
  /\ outcome' = [kind |-> "thrown", error |-> err]
  /\ pc' = "thrown"
  /\ UNCHANGED <<rawLimit, rawExcluded, limitResult, excludedResult, calls, queryArgs,
                 stmt, dbCalls, response, log, DEFAULT_EXCLUDED,
                 request,
                 earlier>>

NextQuery ==
  \/ CallQuery
  \/ pc = "awaiting" /\ \E results \in StoreResults(stmt) : QueryResolve(results)
  \/ \E err \in StoreErrors : QueryReject(err)

SpecQuery == InitQuery /\ [][NextQuery]_vars

----------------------------------------------------------------------------
(* The GET / route: validators, then the handler, one request at a time.   *)

Init == pc = "idle" /\ Idle

\* app.get("/", validators, handler) up to the await of stmt.all()
Request(limit, excluded) ==
  /\ pc = "idle"
  /\ rawLimit' = limit
  /\ rawExcluded' = excluded
  /\ LET v == validators(limit, excluded)
     IN /\ calls' = v.calls
        /\ limitResult' = v.limitResult
        /\ excludedResult' = v.excludedResult
        /\ IF v.result.isResponse
           THEN /\ response' = [status |-> v.result.status, kind |-> "error",
                                error |-> v.result.error]
                /\ pc' = "done"
                /\ UNCHANGED <<queryArgs, stmt, dbCalls>>
           ELSE /\ queryArgs' = [limit |-> v.result.limit, excluded |-> v.result.excluded]
                /\ stmt' = BoundStatement(v.result.limit, v.result.excluded)
                /\ dbCalls' = dbCalls + 1
                /\ pc' = "awaiting"
                /\ UNCHANGED response
  /\ request' = [handler |-> "app", method |-> <<"G", "E", "T">>, path |-> <<"/">>]
  /\ UNCHANGED <<storeReply, outcome, log, DEFAULT_EXCLUDED,
                 earlier>>

\* stmt.all() resolves: c.json(results)
StoreResolve(results) ==
  /\ pc = "awaiting"
  /\ storeReply' = [kind |-> "resolved", results |-> results]
  /\ outcome' = [kind |-> "returned", rows |-> ReturnRows(results)]
  /\ response' = [status |-> 200, kind |-> "rows", rows |-> ReturnRows(results)]
  /\ pc' = "done"
  /\ UNCHANGED <<rawLimit, rawExcluded, limitResult, excludedResult, calls, queryArgs,
                 stmt, dbCalls, log, DEFAULT_EXCLUDED,
                 request,
                 earlier>>

\* Variant of StoreReject: the error response also carries a row list.
StoreReject_WithRows(err) ==
  /\ pc = "awaiting"
  /\ storeReply' = [kind |-> "rejected", error |-> err]
  /\ outcome' = [kind |-> "thrown", error |-> err]
  /\ log' = Append(log, err)
  /\ response' = [status |-> 500, kind |-> "error", error |-> <<"Internal server error">>,
                  rows |-> <<>>]
  /\ pc' = "done"
  /\ UNCHANGED <<rawLimit, rawExcluded, limitResult, excludedResult, calls, queryArgs,
                 stmt, dbCalls, DEFAULT_EXCLUDED, request,
                 earlier>>

\* Variant of StoreReject: the message of the error is put in the body.
StoreReject_Detailed(err) ==
  /\ pc = "awaiting"
  /\ storeReply' = [kind |-> "rejected", error |-> err]
  /\ outcome' = [kind |-> "thrown", error |-> err]
  /\ log' = Append(log, err)
  /\ response' = [status |-> 500, kind |-> "error", error |-> <<err>>]
  /\ pc' = "done"
  /\ UNCHANGED <<rawLimit, rawExcluded, limitResult, excludedResult, calls, queryArgs,
                 stmt, dbCalls, DEFAULT_EXCLUDED, request,
                 earlier>>

\* stmt.all() rejects: the error reaches app.onError
StoreReject(err) ==
  /\ pc = "awaiting"
  /\ storeReply' = [kind |-> "rejected", error |-> err]
  /\ outcome' = [kind |-> "thrown", error |-> err]
  /\ log' = Append(log, err)
  /\ response' = [status |-> 500, kind |-> "error", error |-> <<"Internal server error">>]
  /\ pc' = "done"
  /\ UNCHANGED <<rawLimit, rawExcluded, limitResult, excludedResult, calls, queryArgs,
                 stmt, dbCalls, DEFAULT_EXCLUDED, request,
                 earlier>>

\* the response is sent and everything made for the request is dropped
Respond ==
  /\ pc = "done"
  /\ pc' = "idle"
  /\ rawLimit' = Undefined
  /\ rawExcluded' = Undefined
  /\ limitResult' = NoResult
  /\ excludedResult' = NoResult
  /\ calls' = <<>>
  /\ queryArgs' = NoArgs
  /\ stmt' = NoStatement
  /\ dbCalls' = 0
  /\ storeReply' = NoReply
  /\ outcome' = NoOutcome
  /\ response' = NoResponse
  /\ log' = <<>>
  /\ request' = NoRequest
  /\ UNCHANGED <<DEFAULT_EXCLUDED, earlier>>

Next ==
  \/ \E limit \in ReqLimitInputs, excluded \in ReqExcludedInputs : Request(limit, excluded)
  \/ pc = "awaiting" /\ \E results \in StoreResults(stmt) : StoreResolve(results)
  \/ \E err \in StoreErrors : StoreReject(err)
  \/ Respond

Spec == Init /\ [][Next]_vars

\* the row-store call of the request completes or fails
StoreSettles ==
  \/ pc = "awaiting" /\ \E results \in StoreResults(stmt) : StoreResolve(results)
  \/ \E err \in StoreErrors : StoreReject(err)

\* the GET / route when every row-store call is eventually settled
SpecLive == Init /\ [][Next]_vars /\ WF_vars(StoreSettles)

----------------------------------------------------------------------------
(* The validators run for one request after another in the same process.   *)

InitRepeat == pc = "fresh" /\ Idle

\* Variant of Validate: the parsed map is also left in DEFAULT_EXCLUDED.
Validate_SharedMap(limit, excluded, keep) ==
  /\ pc \in {"fresh", "validated"}
  /\ rawLimit' = limit
  /\ rawExcluded' = excluded
  /\ LET v == validators(limit, excluded)
     IN /\ calls' = v.calls
        /\ limitResult' = v.limitResult
        /\ excludedResult' = v.excludedResult
        /\ response' = IF v.result.isResponse
                       THEN [status |-> v.result.status, kind |-> "error",
                             error |-> v.result.error]
                       ELSE NoResponse
        /\ DEFAULT_EXCLUDED' = IF v.result.isResponse THEN DEFAULT_EXCLUDED
                               ELSE v.result.excluded
  /\ earlier' = IF keep \/ pc = "fresh" THEN earlier
                ELSE [seen |-> TRUE, limit |-> rawLimit, excluded |-> rawExcluded,
                      limitResult |-> limitResult, excludedResult |-> excludedResult]
  /\ pc' = "validated"
  /\ UNCHANGED <<queryArgs, stmt, dbCalls, storeReply, outcome, log, request>>

\* one run of the validator callback, from its call to its return; the run it
\* follows is remembered in earlier unless keep holds
Validate(limit, excluded, keep) ==
  /\ pc \in {"fresh", "validated"}
  /\ rawLimit' = limit
  /\ rawExcluded' = excluded
  /\ LET v == validators(limit, excluded)
     IN /\ calls' = v.calls
        /\ limitResult' = v.limitResult
        /\ excludedResult' = v.excludedResult
        /\ response' = IF v.result.isResponse
                       THEN [status |-> v.result.status, kind |-> "error",
                             error |-> v.result.error]
                       ELSE NoResponse
  /\ earlier' = IF keep \/ pc = "fresh" THEN earlier
                ELSE [seen |-> TRUE, limit |-> rawLimit, excluded |-> rawExcluded,
                      limitResult |-> limitResult, excludedResult |-> excludedResult]
  /\ pc' = "validated"
  /\ UNCHANGED <<queryArgs, stmt, dbCalls, storeReply, outcome, log, request,
                 DEFAULT_EXCLUDED>>

NextRepeat ==
  \E limit \in RepeatLimits, excluded \in RepeatExcludeds, keep \in BOOLEAN :
    Validate(limit, excluded, keep)

SpecRepeat == InitRepeat /\ [][NextRepeat]_vars

----------------------------------------------------------------------------
(* The whole worker: the app's routes and the fetch handler.               *)

\* app.get("/favicon.ico", ...): no validator, no handler of GET /
Favicon(limit, excluded) ==
  /\ pc = "idle"
  /\ request' = [handler |-> "app", method |-> <<"G", "E", "T">>, path |-> FaviconPath]
  /\ rawLimit' = limit
  /\ rawExcluded' = excluded
  /\ response' = [status |-> 204, kind |-> "empty", cacheControl |-> CacheControl]
  /\ pc' = "done"
  /\ UNCHANGED <<limitResult, excludedResult, calls, queryArgs, stmt, dbCalls,
                 storeReply, outcome, log, DEFAULT_EXCLUDED,
                 earlier>>

\* fetch(request, env, _ctx) up to the await of getRandomTranscriptsWithSpeaker
Fetch(method, path, limit, excluded) ==
  /\ pc = "idle"
  /\ request' = [handler |-> "fetch", method |-> method, path |-> path]
  /\ rawLimit' = limit
  /\ rawExcluded' = excluded
  /\ LET params == getParams(method, path, limit, excluded)
     IN IF params.thrown
        THEN /\ response' = [status |-> 400, kind |-> "error", error |-> params.message]
             /\ pc' = "done"
             /\ UNCHANGED <<queryArgs, stmt, dbCalls>>
        ELSE IF params.isFavicon
        THEN /\ response' = [status |-> 204, kind |-> "empty",
                             cacheControl |-> CacheControl]
             /\ pc' = "done"
             /\ UNCHANGED <<queryArgs, stmt, dbCalls>>
        ELSE /\ queryArgs' = [limit |-> params.limit, excluded |-> params.excluded]
             /\ stmt' = BoundStatement(params.limit, params.excluded)
             /\ dbCalls' = dbCalls + 1
             /\ pc' = "fetching"
             /\ UNCHANGED response
  /\ UNCHANGED <<limitResult, excludedResult, calls, storeReply, outcome, log,
                 DEFAULT_EXCLUDED,
                 earlier>>

\* the await in fetch resolves: Response.json(rows)
FetchResolve(results) ==
  /\ pc = "fetching"
  /\ storeReply' = [kind |-> "resolved", results |-> results]
  /\ outcome' = [kind |-> "returned", rows |-> ReturnRows(results)]
  /\ response' = [status |-> 200, kind |-> "rows", rows |-> ReturnRows(results)]
  /\ pc' = "done"
  /\ UNCHANGED <<rawLimit, rawExcluded, limitResult, excludedResult, calls, queryArgs,
                 stmt, dbCalls, log, DEFAULT_EXCLUDED, request,
                 earlier>>

\* the await in fetch rejects: the catch block, error not a ParamsError
FetchReject(err) ==
  /\ pc = "fetching"
  /\ storeReply' = [kind |-> "rejected", error |-> err]
  /\ outcome' = [kind |-> "thrown", error |-> err]
  /\ log' = Append(log, err)
  /\ response' = [status |-> 500, kind |-> "error", error |-> <<"Internal server error">>]
  /\ pc' = "done"
  /\ UNCHANGED <<rawLimit, rawExcluded, limitResult, excludedResult, calls, queryArgs,
                 stmt, dbCalls, DEFAULT_EXCLUDED, request,
                 earlier>>

NextWorker ==
  \/ \E limit \in ReqLimitInputs, excluded \in ReqExcludedInputs : Request(limit, excluded)
  \/ pc = "awaiting" /\ \E results \in StoreResults(stmt) : StoreResolve(results)
  \/ \E err \in StoreErrors : StoreReject(err)
  \/ \E limit \in ReqLimitInputs, excluded \in ReqExcludedInputs : Favicon(limit, excluded)
  \/ \E method \in FetchMethods, path \in FetchPaths, limit \in FetchLimits,
        excluded \in FetchExcludeds : Fetch(method, path, limit, excluded)
  \/ pc = "fetching" /\ \E results \in StoreResults(stmt) : FetchResolve(results)
  \/ \E err \in StoreErrors : FetchReject(err)
  \/ Respond

SpecWorker == Init /\ [][NextWorker]_vars

----------------------------------------------------------------------------
(* Properties of the validation pipeline (Spec).                           *)

\* C1: validators evaluates the limit first: when the limit is invalid its
\* error is the response and validateExcluded is never invoked, whatever
\* 'excluded' is; only when the limit succeeds is validateExcluded invoked,
\* and its failure is then the response.
C1_LimitEvaluatedFirst ==
  pc # "idle" =>
    /\ Len(calls) >= 1
    /\ calls[1] = "validateLimit"
    /\ validateLimit(rawLimit).isResponse =>
         /\ calls = <<"validateLimit">>
         /\ excludedResult = NoResult
         /\ pc = "done"
         /\ response = [status |-> 400, kind |-> "error",
                        error |-> validateLimit(rawLimit).error]
    /\ ~validateLimit(rawLimit).isResponse =>
         /\ calls = <<"validateLimit", "validateExcluded">>
         /\ validateExcluded(rawExcluded).isResponse =>
              /\ pc = "done"
              /\ response = [status |-> 400, kind |-> "error",
                             error |-> validateExcluded(rawExcluded).error]

\* an invalid limit together with an invalid exclusion string: the limit's
\* error is the response and validateExcluded was not invoked
C1_Witness ==
  /\ pc = "done"
  /\ rawLimit = Str(<<"0">>)
  /\ rawExcluded = Str(<<"a">>)
  /\ calls = <<"validateLimit">>
  /\ response = [status |-> 400, kind |-> "error",
                 error |-> <<"'limit' must be greater or equal to ", "1">>]

----------------------------------------------------------------------------
(* Properties of validateLimit (SpecLimit).                                *)

\* C2: an absent or empty 'limit' gives limit = 1 and no error.
C2_DefaultLimit ==
  (pc = "returned" /\ (rawLimit = Undefined \/ rawLimit = Str(<<>>))) =>
    limitResult = [isResponse |-> FALSE, limit |-> 1]

C2_Witness ==
  /\ pc = "returned"
  /\ rawLimit = Str(<<>>)
  /\ limitResult = [isResponse |-> FALSE, limit |-> 1]

\* C3: a non-empty limit string whose leading integer n is in 1..100 is
\* accepted with limit = n; 1 and 100 are accepted, and a suffix that is not
\* part of the integer ("50.5") is ignored.
C3_LimitInRange ==
  (pc = "returned" /\ rawLimit.t = "string" /\ rawLimit.s # <<>>) =>
    /\ (~parseInt(rawLimit.s).nan /\ parseInt(rawLimit.s).n \in 1..100) =>
         limitResult = [isResponse |-> FALSE, limit |-> parseInt(rawLimit.s).n]
    /\ rawLimit.s = <<"1">> => limitResult = [isResponse |-> FALSE, limit |-> 1]
    /\ rawLimit.s = <<"1", "0", "0">> =>
         limitResult = [isResponse |-> FALSE, limit |-> 100]
    /\ rawLimit.s = <<"5", "0", ".", "5">> =>
         limitResult = [isResponse |-> FALSE, limit |-> 50]
    /\ rawLimit.s = <<"1", "5", "a">> =>
         limitResult = [isResponse |-> FALSE, limit |-> 15]

C3_Witness ==
  /\ pc = "returned"
  /\ rawLimit = Str(<<"5", "0", ".", "5">>)
  /\ limitResult = [isResponse |-> FALSE, limit |-> 50]

\* C4: a limit string that parses to an integer below 1 is rejected with
\* "'limit' must be greater or equal to 1", one above 100 with "'limit' must
\* be less or equal to 100"; no value out of range is clamped or accepted.
C4_LimitOutOfRange ==
  (pc = "returned" /\ rawLimit.t = "string" /\ rawLimit.s # <<>>
     /\ ~parseInt(rawLimit.s).nan) =>
    /\ parseInt(rawLimit.s).n < 1 =>
         limitResult = [isResponse |-> TRUE, status |-> 400,
                        error |-> <<"'limit' must be greater or equal to ", "1">>]
    /\ parseInt(rawLimit.s).n > 100 =>
         limitResult = [isResponse |-> TRUE, status |-> 400,
                        error |-> <<"'limit' must be less or equal to ", "1", "0", "0">>]
    /\ rawLimit.s \in {<<"0">>, <<"-", "5">>, <<"-", "1">>} =>
         limitResult.isResponse
           /\ limitResult.error = <<"'limit' must be greater or equal to ", "1">>
    /\ rawLimit.s \in {<<"1", "0", "1">>, <<"5", "5", "5", "5">>} =>
         limitResult.isResponse
           /\ limitResult.error = <<"'limit' must be less or equal to ", "1", "0", "0">>
    /\ ~limitResult.isResponse => limitResult.limit = parseInt(rawLimit.s).n

C4_Witness ==
  /\ pc = "returned"
  /\ rawLimit = Str(<<"1", "0", "1">>)
  /\ limitResult = [isResponse |-> TRUE, status |-> 400,
                    error |-> <<"'limit' must be less or equal to ", "1", "0", "0">>]

----------------------------------------------------------------------------
(* Properties of validateExcluded (SpecExcluded).  The entries of an        *)
(* exclusion string are described here from the grammar: an entry is blank, *)
(* malformed, has an empty sequence list, or is accepted.                   *)

C_Blank(text) == \A i \in 1..Len(text) : text[i] \in WhiteSpace

C_Parts(entry) == Split(Trim(entry), "=")

\* no '=', an empty id, or an empty sequence-list text
C_MalformedEntry(entry) ==
  /\ ~C_Blank(entry)
  /\ \/ Len(C_Parts(entry)) < 2
     \/ C_Parts(entry)[1] = <<>>
     \/ C_Parts(entry)[2] = <<>>

\* an id and a sequence-list text, every candidate of which is blank
C_EmptyListEntry(entry) ==
  /\ ~C_Blank(entry)
  /\ ~C_MalformedEntry(entry)
  /\ \A j \in 1..Len(Split(C_Parts(entry)[2], ",")) :
       C_Blank(Split(C_Parts(entry)[2], ",")[j])

C_Invalid(entry) == C_MalformedEntry(entry) \/ C_EmptyListEntry(entry)

\* the position of the leftmost invalid entry, 0 when there is none
C_FirstInvalid(items) ==
  IF \E k \in 1..Len(items) : C_Invalid(items[k])
  THEN CHOOSE k \in 1..Len(items) :
         C_Invalid(items[k]) /\ \A j \in 1..(k - 1) : ~C_Invalid(items[j])
  ELSE 0

\* the entries that are not blank, in order
RECURSIVE C_NonBlank(_)
C_NonBlank(items) ==
  IF items = <<>> THEN <<>>
  ELSE IF C_Blank(items[1]) THEN C_NonBlank(Tail(items))
  ELSE <<items[1]>> \o C_NonBlank(Tail(items))

C_StringCall == pc = "returned" /\ rawExcluded.t = "string" /\ rawExcluded.s # <<>>

\* C6: an absent or empty 'excluded' gives the empty ExclusionSet and no error.
C6_DefaultExcluded ==
  (pc = "returned" /\ (rawExcluded = Undefined \/ rawExcluded = Str(<<>>))) =>
    excludedResult = [isResponse |-> FALSE, excluded |-> <<>>]

C6_Witness ==
  /\ pc = "returned"
  /\ rawExcluded = Undefined
  /\ excludedResult = [isResponse |-> FALSE, excluded |-> <<>>]

\* C7: an entry that is empty after trimming is skipped silently: the result
\* is that of the same string without its blank entries, and a string of
\* separators and white space alone gives the empty ExclusionSet.
C7_BlankEntriesSkipped ==
  C_StringCall =>
    /\ excludedResult =
         validateExcluded(Str(Join(C_NonBlank(Split(rawExcluded.s, ";")), ";")))
    /\ C_NonBlank(Split(rawExcluded.s, ";")) = <<>> =>
         excludedResult = [isResponse |-> FALSE, excluded |-> <<>>]
    /\ (\E k \in 1..Len(Split(rawExcluded.s, ";")) :
          C_Blank(Split(rawExcluded.s, ";")[k]) /\ excludedResult.isResponse) =>
         C_FirstInvalid(Split(rawExcluded.s, ";")) > 0

\* a doubled and a trailing ';' around two accepted entries
C7_Witness ==
  /\ pc = "returned"
  /\ rawExcluded = Str(<<"a", "=", "1", ";", ";", "b", "=", "2", ";">>)
  /\ excludedResult =
       [isResponse |-> FALSE,
        excluded |-> << [key |-> <<"a">>, value |-> << <<"1">> >>],
                        [key |-> <<"b">>, value |-> << <<"2">> >>] >>]

C_LastEntryOf(items, key) ==
  items[CHOOSE k \in 1..Len(items) :
          /\ ~C_Blank(items[k])
          /\ C_Parts(items[k])[1] = key
          /\ \A j \in (k + 1)..Len(items) :
               C_Blank(items[j]) \/ C_Parts(items[j])[1] # key]

\* the trimmed candidates of an entry's sequence list, blank ones included
C_Candidates(entry) ==
  [j \in 1..Len(Split(C_Parts(entry)[2], ",")) |-> Trim(Split(C_Parts(entry)[2], ",")[j])]

C_FirstIndex(seq, x) ==
  CHOOSE j \in 1..Len(seq) : seq[j] = x /\ \A i \in 1..(j - 1) : seq[i] # x

\* C9: the sequences stored for an accepted entry are the candidates of its
\* sequence list trimmed, without the blank ones and without duplicates, in
\* order of first occurrence.
C9_StoredSequences ==
  (C_StringCall /\ ~excludedResult.isResponse) =>
    \A m \in 1..Len(excludedResult.excluded) :
      LET stored == excludedResult.excluded[m].value
          cands == C_Candidates(C_LastEntryOf(Split(rawExcluded.s, ";"),
                                              excludedResult.excluded[m].key))
      IN /\ \A q \in 1..Len(stored) :
              /\ stored[q] # <<>>
              /\ stored[q][1] \notin WhiteSpace
              /\ stored[q][Len(stored[q])] \notin WhiteSpace
         /\ \A q, r \in 1..Len(stored) : q # r => stored[q] # stored[r]
         /\ {stored[q] : q \in 1..Len(stored)}
              = {cands[j] : j \in 1..Len(cands)} \ {<<>>}
         /\ \A q, r \in 1..Len(stored) :
              q < r => C_FirstIndex(cands, stored[q]) < C_FirstIndex(cands, stored[r])

\* "a=1,1,a": a duplicate and two distinct sequences
C9_Witness ==
  /\ pc = "returned"
  /\ rawExcluded = Str(<<"a", "=", "1", ",", "1", ",", "a">>)
  /\ excludedResult =
       [isResponse |-> FALSE,
        excluded |-> << [key |-> <<"a">>, value |-> << <<"1">>, <<"a">> >>] >>]

\* C10: when the leftmost invalid entry has an id and a sequence-list text of
\* which every candidate is blank, the result is the error "'excluded' must
\* have at least one sequence for id <id>: <entry>", with the entry's id and
\* its original, untrimmed text.
C10_EmptySequenceList ==
  C_StringCall =>
    LET items == Split(rawExcluded.s, ";")
        k == C_FirstInvalid(items)
    IN /\ (k > 0 /\ C_EmptyListEntry(items[k])) =>
            excludedResult =
              [isResponse |-> TRUE, status |-> 400,
               error |-> <<"'excluded' must have at least one sequence for id ">>
                           \o C_Parts(items[k])[1] \o <<": ">> \o items[k]]
       /\ rawExcluded.s = <<"a", "=", ",", ",">> =>
            excludedResult =
              [isResponse |-> TRUE, status |-> 400,
               error |-> <<"'excluded' must have at least one sequence for id ",
                           "a", ": ", "a", "=", ",", ",">>]

\* " a=,": the error names the id "a" and the untrimmed entry " a=,"
C10_Witness ==
  /\ pc = "returned"
  /\ rawExcluded = Str(<<" ", "a", "=", ",">>)
  /\ excludedResult =
       [isResponse |-> TRUE, status |-> 400,
        error |-> <<"'excluded' must have at least one sequence for id ",
                    "a", ": ", " ", "a", "=", ",">>]

\* C11: an id given in several entries is mapped to the sequences of its last
\* entry alone: the map has one entry per id, and a sequence found only in an
\* earlier entry of the id is not in it.
C11_LastOccurrenceWins ==
  (C_StringCall /\ ~excludedResult.isResponse) =>
    LET items == Split(rawExcluded.s, ";")
        map == excludedResult.excluded
    IN /\ \A m, n \in 1..Len(map) : m # n => map[m].key # map[n].key
       /\ \A k \in 1..Len(items) :
            ~C_Blank(items[k]) => \E m \in 1..Len(map) : map[m].key = C_Parts(items[k])[1]
       /\ \A m \in 1..Len(map) :
            LET last == C_Candidates(C_LastEntryOf(items, map[m].key))
            IN /\ {map[m].value[q] : q \in 1..Len(map[m].value)}
                    = {last[j] : j \in 1..Len(last)} \ {<<>>}
               /\ \A k \in 1..Len(items) :
                    (~C_Blank(items[k]) /\ C_Parts(items[k])[1] = map[m].key) =>
                      \A j \in 1..Len(C_Candidates(items[k])) :
                        (\A i \in 1..Len(last) : last[i] # C_Candidates(items[k])[j]) =>
                          \A q \in 1..Len(map[m].value) :
                            map[m].value[q] # C_Candidates(items[k])[j]
       /\ rawExcluded.s = <<"a", "=", "1", ";", "a", "=", "2">> =>
            map = << [key |-> <<"a">>, value |-> << <<"2">> >>] >>

\* "a=1;a=2": the id a keeps the sequence 2 alone
C11_Witness ==
  /\ pc = "returned"
  /\ rawExcluded = Str(<<"a", "=", "1", ";", "a", "=", "2">>)
  /\ excludedResult =
       [isResponse |-> FALSE,
        excluded |-> << [key |-> <<"a">>, value |-> << <<"2">> >>] >>]

\* C12: in every ExclusionSet validateExcluded returns, every key is a
\* non-empty string with a non-empty set of sequences; a string with an entry
\* that has no valid sequence is an error, never a map.
C12_NoEmptyEntry ==
  pc = "returned" =>
    /\ ~excludedResult.isResponse =>
         \A m \in 1..Len(excludedResult.excluded) :
           /\ excludedResult.excluded[m].key # <<>>
           /\ Len(excludedResult.excluded[m].value) > 0
           /\ \A q \in 1..Len(excludedResult.excluded[m].value) :
                excludedResult.excluded[m].value[q] # <<>>
    /\ (rawExcluded.t = "string" /\ C_FirstInvalid(Split(rawExcluded.s, ";")) > 0) =>
         excludedResult.isResponse

\* "a=1,;b=2;": two entries, each with its id and one sequence
C12_Witness ==
  /\ pc = "returned"
  /\ rawExcluded = Str(<<"a", "=", "1", ",", ";", "b", "=", "2", ";">>)
  /\ excludedResult =
       [isResponse |-> FALSE,
        excluded |-> << [key |-> <<"a">>, value |-> << <<"1">> >>],
                        [key |-> <<"b">>, value |-> << <<"2">> >>] >>]

----------------------------------------------------------------------------
(* Claims about getRandomTranscriptsWithSpeaker.                           *)

\* getRandomTranscriptsWithSpeaker has prepared and bound its statement
C_QueryCalled == pc \in {"awaiting", "returned", "thrown"}

\* the entries of the map whose set is not empty, in insertion order
C_Retained(excluded) == SelectSeq(excluded, LAMBDA e : e.value # <<>>)

\* C13: when the map given to getRandomTranscriptsWithSpeaker has no entry
\* with a non-empty set (it is empty, or all its sets are empty), the query
\* text has no WHERE clause and the bind list is exactly [limit].
C13_NoFilterWhenNothingExcluded ==
  (C_QueryCalled /\ C_Retained(queryArgs.excluded) = <<>>) =>
    /\ stmt.text = <<SelectFrom, " ORDER BY RANDOM() LIMIT ", "?", ";">>
    /\ stmt.binds = <<NumVal(queryArgs.limit)>>

C13_Witness ==
  /\ pc = "awaiting"
  /\ queryArgs = [limit |-> 3,
                  excluded |-> <<[key |-> <<"a">>, value |-> <<>>],
                                 [key |-> <<"b">>, value |-> <<>>]>>]
  /\ stmt.text = <<SelectFrom, " ORDER BY RANDOM() LIMIT ", "?", ";">>
  /\ stmt.binds = <<NumVal(3)>>

\* n placeholders separated by ", "
RECURSIVE C_Marks(_)
C_Marks(n) ==
  IF n = 0 THEN <<>> ELSE IF n = 1 THEN <<"?">> ELSE <<"?", ", ">> \o C_Marks(n - 1)

\* the clause of one entry whose set has n sequences
C_Clause(n) == <<"(t.speaker_id = ", "?", " AND t.sequence IN (">> \o C_Marks(n) \o <<"))">>

\* the clauses of the entries, in order, separated by " OR "
RECURSIVE C_Clauses(_)
C_Clauses(entries) ==
  IF entries = <<>> THEN <<>>
  ELSE IF Len(entries) = 1 THEN C_Clause(Len(entries[1].value))
  ELSE C_Clause(Len(entries[1].value)) \o <<" OR ">> \o C_Clauses(Tail(entries))

\* C14: when some entry has a non-empty set, the filter is
\* WHERE NOT (c_1 OR ... OR c_k) with one clause
\* (t.speaker_id = ? AND t.sequence IN (?, ..., ?)) per entry with a non-empty
\* set, in the map's insertion order, its IN list holding as many placeholders
\* as the entry's set has sequences.
C14_FilterShape ==
  (C_QueryCalled /\ C_Retained(queryArgs.excluded) # <<>>) =>
    stmt.text = <<SelectFrom, "WHERE NOT (">> \o C_Clauses(C_Retained(queryArgs.excluded))
                  \o <<")", " ORDER BY RANDOM() LIMIT ", "?", ";">>

C14_Witness ==
  /\ pc = "awaiting"
  /\ queryArgs.excluded = <<[key |-> <<"a">>, value |-> << <<"1">>, <<"2">> >>],
                            [key |-> <<"b">>, value |-> << <<"2">> >>]>>
  /\ stmt.text = <<SelectFrom, "WHERE NOT (",
                   "(t.speaker_id = ", "?", " AND t.sequence IN (", "?", ", ", "?", "))",
                   " OR ",
                   "(t.speaker_id = ", "?", " AND t.sequence IN (", "?", "))",
                   ")", " ORDER BY RANDOM() LIMIT ", "?", ";">>

\* the number of bind values the entries before the k-th take
RECURSIVE C_Offset(_, _)
C_Offset(entries, k) ==
  IF k = 1 THEN 0 ELSE C_Offset(entries, k - 1) + 1 + Len(entries[k - 1].value)

\* C15: the bind list is, for each entry with a non-empty set in insertion
\* order, the speaker id followed by that entry's sequences in the set's
\* order, and the limit last; the statement is bound exactly once.
C15_BindOrder ==
  C_QueryCalled =>
    LET r == C_Retained(queryArgs.excluded)
        b == stmt.binds
    IN /\ Len(b) = C_Offset(r, Len(r) + 1) + 1
       /\ \A k \in 1..Len(r) :
            /\ b[C_Offset(r, k) + 1] = Str(r[k].key)
            /\ \A i \in 1..Len(r[k].value) :
                 b[C_Offset(r, k) + 1 + i] = Str(r[k].value[i])
       /\ b[Len(b)] = NumVal(queryArgs.limit)
       /\ stmt.bindCalls = 1

C15_Witness ==
  /\ pc = "awaiting"
  /\ queryArgs = [limit |-> 3,
                  excluded |-> <<[key |-> <<"b">>, value |-> << <<"2">> >>],
                                 [key |-> <<"a">>, value |-> << <<"2">>, <<"1">> >>]>>]
  /\ stmt.binds = <<Str(<<"b">>), Str(<<"2">>), Str(<<"a">>), Str(<<"2">>), Str(<<"1">>),
                    NumVal(3)>>
  /\ stmt.bindCalls = 1

\* the sum of the sequence counts c_1..c_N of the entries
RECURSIVE C_SumCounts(_)
C_SumCounts(entries) ==
  IF entries = <<>> THEN 0 ELSE Len(entries[1].value) + C_SumCounts(Tail(entries))

\* the text ends in one LIMIT placeholder, the only one outside the clause
C_OneLimitPlaceholder ==
  /\ SubSeq(stmt.text, Len(stmt.text) - 2, Len(stmt.text))
       = <<" ORDER BY RANDOM() LIMIT ", "?", ";">>
  /\ PlaceholderCount(stmt.text) = PlaceholderCount(WherePieces(stmt.text)) + 1

\* C16, as stated: for a map with N entries of sequence counts c_1..c_N the
\* query has exactly the sum of the c_i placeholders inside the exclusion
\* clause, plus one trailing LIMIT placeholder.
C16_Original ==
  C_QueryCalled =>
    /\ PlaceholderCount(WherePieces(stmt.text)) = C_SumCounts(queryArgs.excluded)
    /\ C_OneLimitPlaceholder

\* C16: for a map with N entries of sequence counts c_1..c_N the query has,
\* inside the exclusion clause, one speaker placeholder for every entry with
\* c_i >= 1 plus the sum of the c_i sequence placeholders, and one trailing
\* LIMIT placeholder outside it.
C16_PlaceholderCount ==
  C_QueryCalled =>
    /\ PlaceholderCount(WherePieces(stmt.text))
         = Len(C_Retained(queryArgs.excluded)) + C_SumCounts(queryArgs.excluded)
    /\ C_OneLimitPlaceholder

C16_Witness ==
  /\ pc = "awaiting"
  /\ queryArgs.excluded = <<[key |-> <<"a">>, value |-> << <<"1">>, <<"2">> >>],
                            [key |-> <<"b">>, value |-> <<>>]>>
  /\ PlaceholderCount(WherePieces(stmt.text)) = 3
  /\ PlaceholderCount(stmt.text) = 4

\* C17: for a map with N entries of sequence counts c_1..c_N, all at least 1,
\* the bind list has N + (c_1 + ... + c_N) + 1 values: one id and c_i
\* sequences for each entry, and the limit.
C17_BindListLength ==
  (C_QueryCalled
     /\ \A i \in 1..Len(queryArgs.excluded) : Len(queryArgs.excluded[i].value) >= 1) =>
    Len(stmt.binds) = Len(queryArgs.excluded) + C_SumCounts(queryArgs.excluded) + 1

C17_Witness ==
  /\ pc = "awaiting"
  /\ queryArgs.excluded = <<[key |-> <<"a">>, value |-> << <<"1">>, <<"2">> >>],
                            [key |-> <<"c">>, value |-> << <<"1">> >>]>>
  /\ Len(stmt.binds) = 6

\* the map has an entry (id, S) with row.speaker = id and row.sequence in S
C_Excluded(row) ==
  \E i \in 1..Len(queryArgs.excluded) :
    /\ queryArgs.excluded[i].key = row.speaker
    /\ \E j \in 1..Len(queryArgs.excluded[i].value) :
         queryArgs.excluded[i].value[j] = row.sequence

\* C18: a row store that evaluates the generated predicate with the bound
\* values keeps a row exactly when the map has no entry (id, S) with
\* row.speaker = id and row.sequence in S: no returned row matches an excluded
\* speaker and sequence, and a row of an excluded speaker with a sequence not
\* listed for that speaker is kept.
C18_EligibleRows ==
  C_QueryCalled =>
    /\ \A row \in Table : Eligible(stmt, row) <=> ~C_Excluded(row)
    /\ pc = "returned" => \A i \in 1..Len(outcome.rows) : ~C_Excluded(outcome.rows[i])

C18_Witness ==
  /\ pc = "returned"
  /\ queryArgs.excluded = <<[key |-> <<"a">>, value |-> << <<"1">> >>]>>
  /\ ~Eligible(stmt, Row(<<"a">>, <<"1">>, TRUE))
  /\ outcome.rows = <<Row(<<"a">>, <<"2">>, FALSE)>>

\* C19: on success getRandomTranscriptsWithSpeaker returns exactly the rows
\* the row store returned: same length, same order, every field of every row
\* unchanged, a row without region still without region.
C19_RowsReturnedUnchanged ==
  pc = "returned" =>
    /\ storeReply.kind = "resolved"
    /\ outcome.kind = "returned"
    /\ Len(outcome.rows) = Len(storeReply.results)
    /\ \A i \in 1..Len(outcome.rows) :
         /\ outcome.rows[i] = storeReply.results[i]
         /\ ~storeReply.results[i].hasRegion =>
              (~outcome.rows[i].hasRegion /\ outcome.rows[i].region = "absent")

C19_Witness ==
  /\ pc = "returned"
  /\ storeReply.results = <<Row(<<"a">>, <<"2">>, FALSE), Row(<<"b">>, <<"2">>, TRUE)>>
  /\ outcome.rows = <<Row(<<"a">>, <<"2">>, FALSE), Row(<<"b">>, <<"2">>, TRUE)>>

\* C20: when the row-store call fails, getRandomTranscriptsWithSpeaker fails
\* with that same error, unchanged: no second call to the store, no rows
\* returned, the error neither replaced nor wrapped.
C20_StoreErrorPropagates ==
  /\ dbCalls <= 1
  /\ storeReply.kind = "rejected" =>
       /\ pc = "thrown"
       /\ dbCalls = 1
       /\ outcome = [kind |-> "thrown", error |-> storeReply.error]
  /\ pc = "thrown" => storeReply.kind = "rejected"

C20_Witness ==
  /\ pc = "thrown"
  /\ storeReply = [kind |-> "rejected", error |-> "SQL syntax error"]
  /\ outcome = [kind |-> "thrown", error |-> "SQL syntax error"]
  /\ dbCalls = 1
  /\ queryArgs.excluded # <<>>

----------------------------------------------------------------------------
(* Claims about the responses of the worker.                               *)

\* the literal beginnings of the validation messages
C_MessageHeads ==
  { "'limit' must be a number: ",
    "'limit' must be greater or equal to ",
    "'limit' must be less or equal to ",
    "'excluded' must be a string: ",
    "'excluded' must be in format id=sequence1,sequence2;id2=sequence3,sequence4: ",
    "'excluded' must have at least one sequence for id " }

\* the request being handled is a GET / of the app
C_AppRoot == request = [handler |-> "app", method |-> <<"G", "E", "T">>, path |-> <<"/">>]

\* the request being handled fails the validation of limit or of excluded
C_FailsValidation ==
  \/ validateLimit(rawLimit).isResponse
  \/ validateExcluded(rawExcluded).isResponse

\* the message of the check the request fails
C_FailingMessage ==
  IF validateLimit(rawLimit).isResponse
  THEN validateLimit(rawLimit).error
  ELSE validateExcluded(rawExcluded).error

C22_GenericStoreError ==
  storeReply.kind = "rejected" =>
    /\ pc = "done"
    /\ request.handler \in {"app", "fetch"}
    /\ response = [status |-> 500, kind |-> "error", error |-> <<"Internal server error">>]
    /\ log = <<storeReply.error>>

C22_Witness ==
  /\ pc = "done"
  /\ request.handler = "fetch"
  /\ storeReply = [kind |-> "rejected", error |-> "Database connection failed"]
  /\ response = [status |-> 500, kind |-> "error", error |-> <<"Internal server error">>]
  /\ log = <<"Database connection failed">>

\* the response is a 200 with the whole row list of the store
C_Succeeded ==
  /\ DOMAIN response = {"status", "kind", "rows"}
  /\ response.status = 200
  /\ storeReply.kind = "resolved"
  /\ response.rows = storeReply.results

\* the response is a 400 with a validation message and nothing else
C_Rejected ==
  /\ DOMAIN response = {"status", "kind", "error"}
  /\ response.status = 400
  /\ C_FailsValidation
  /\ response.error = C_FailingMessage
  /\ storeReply = NoReply

\* the response is the generic 500 and nothing else
C_Failed ==
  /\ DOMAIN response = {"status", "kind", "error"}
  /\ response.status = 500
  /\ response.error = <<"Internal server error">>
  /\ storeReply.kind = "rejected"

\* C23: every GET / request whose row-store call, if any, completes or fails
\* eventually ends, and it ends in one outcome: 200 with the whole row list,
\* 400 with a validation message, or 500 with the generic error; no error
\* response carries rows and no response exists before the request ends.
C23_OneOutcome ==
  /\ [](C_AppRoot =>
          /\ pc \in {"awaiting", "done"}
          /\ pc = "awaiting" => response = NoResponse
          /\ pc = "done" => (C_Succeeded \/ C_Rejected \/ C_Failed))
  /\ (C_AppRoot /\ pc = "awaiting") ~> (C_AppRoot /\ pc = "done")

C23_Witness ==
  /\ pc = "done"
  /\ C_AppRoot
  /\ C_Succeeded
  /\ Len(response.rows) = 2

C_FaviconRequest == request.method = <<"G", "E", "T">> /\ request.path = FaviconPath

\* the request is answered 204 with the Cache-Control header, the row store
\* not called
C_FaviconAnswer ==
  /\ pc = "done"
  /\ response = [status |-> 204, kind |-> "empty",
                 cacheControl |-> "public, max-age=604800, immutable"]
  /\ dbCalls = 0
  /\ stmt = NoStatement

\* the favicon route of the app answers every request it gets
C_AppFavicon == (C_FaviconRequest /\ request.handler = "app") => C_FaviconAnswer

\* the fetch handler answers the favicon requests whose parameters are valid
C_FetchFaviconWhenValid ==
  (C_FaviconRequest /\ request.handler = "fetch"
     /\ ~params_validateLimit(rawLimit).thrown
     /\ ~params_validateExcluded(rawExcluded).thrown) => C_FaviconAnswer

\* C25: every request to /favicon.ico is answered with status 204 and the
\* header Cache-Control: public, max-age=604800, immutable, whatever query
\* parameters it carries, and the row store is never called for it, under
\* the app's favicon route and under the fetch handler alike.
C25_FaviconAlways204 == C_FaviconRequest => C_FaviconAnswer

----------------------------------------------------------------------------
(* Further properties of validateExcluded (SpecExcluded).                  *)

\* the entry cut after its second '='-delimited segment
C_FirstTwo(entry) ==
  IF Len(Split(entry, "=")) <= 2 THEN entry
  ELSE Split(entry, "=")[1] \o <<"=">> \o Split(entry, "=")[2]

\* the exclusion string with every entry cut after its second segment
C_Truncated(items) == Str(Join([k \in 1..Len(items) |-> C_FirstTwo(items[k])], ";"))

\* validateExcluded accepts the entry given alone
C_Accepted(entry) == ~validateExcluded(Str(entry)).isResponse

\* the entry has more than one '='
C_ManySegments(entry) == ~C_Blank(entry) /\ Len(C_Parts(entry)) > 2

\* C26, as stated: an entry with more than one '=' is accepted exactly when
\* its first two segments are both non-empty.
C26_Original ==
  C_StringCall =>
    \A k \in 1..Len(Split(rawExcluded.s, ";")) :
      LET entry == Split(rawExcluded.s, ";")[k]
      IN C_ManySegments(entry) =>
           (C_Accepted(entry) <=> (C_Parts(entry)[1] # <<>> /\ C_Parts(entry)[2] # <<>>))

\* C26: of a trimmed entry with more than one '=' only the first two segments
\* are used, the first as id and the second as sequence-list text: the entry
\* is accepted exactly when the first is non-empty and the second holds a
\* non-blank sequence, and cutting every entry after its second segment
\* changes neither whether the string is accepted nor the map returned
\* ("a=1=a" gives a -> {1}).
C26_ExtraSegmentsDiscarded ==
  C_StringCall =>
    LET items == Split(rawExcluded.s, ";")
    IN /\ \A k \in 1..Len(items) :
            C_ManySegments(items[k]) =>
              (C_Accepted(items[k]) <=>
                 /\ C_Parts(items[k])[1] # <<>>
                 /\ \E j \in 1..Len(Split(C_Parts(items[k])[2], ",")) :
                      ~C_Blank(Split(C_Parts(items[k])[2], ",")[j]))
       /\ excludedResult.isResponse <=> validateExcluded(C_Truncated(items)).isResponse
       /\ ~excludedResult.isResponse => excludedResult = validateExcluded(C_Truncated(items))
       /\ rawExcluded.s = <<"a", "=", "1", "=", "a">> =>
            excludedResult = [isResponse |-> FALSE,
                              excluded |-> <<[key |-> <<"a">>, value |-> << <<"1">> >>]>>]

C26_Witness ==
  /\ pc = "returned"
  /\ rawExcluded = Str(<<"a", "=", "1", "=", "a">>)
  /\ excludedResult = [isResponse |-> FALSE,
                       excluded |-> <<[key |-> <<"a">>, value |-> << <<"1">> >>]>>]

----------------------------------------------------------------------------
(* Further properties of getRandomTranscriptsWithSpeaker (SpecQuery).      *)

\* the positions of the placeholders in the text, in text order
C_Positions(text) ==
  SelectSeq([i \in 1..Len(text) |-> i], LAMBDA i : text[i] = "?")

\* the i-th placeholder of the text follows the piece named
C_Follows(text, i, piece) == text[C_Positions(text)[i] - 1] = piece

\* the speaker placeholders among the first i placeholders
C_SpeakersUpTo(text, i) == {j \in 1..i : C_Follows(text, j, "(t.speaker_id = ")}

\* the last speaker placeholder among the first i placeholders
C_LastSpeaker(text, i) ==
  CHOOSE j \in C_SpeakersUpTo(text, i) : \A k \in C_SpeakersUpTo(text, i) : k <= j

\* C27: for every map, entries with empty sets included, the prepared text
\* has as many placeholders as the bind list has values, and the i-th
\* placeholder in text order takes the i-th value: a speaker placeholder the
\* speaker id of its clause, an IN-list placeholder the next sequence of that
\* speaker, the LIMIT placeholder the limit.
C27_PlaceholdersMatchBinds ==
  C_QueryCalled =>
    LET text == stmt.text
        r == C_Retained(queryArgs.excluded)
    IN /\ Len(C_Positions(text)) = Len(stmt.binds)
       /\ \A i \in 1..Len(stmt.binds) :
            IF C_Follows(text, i, "(t.speaker_id = ")
            THEN stmt.binds[i] = Str(r[Cardinality(C_SpeakersUpTo(text, i))].key)
            ELSE IF C_Follows(text, i, " ORDER BY RANDOM() LIMIT ")
            THEN i = Len(stmt.binds) /\ stmt.binds[i] = NumVal(queryArgs.limit)
            ELSE /\ \/ C_Follows(text, i, " AND t.sequence IN (")
                    \/ C_Follows(text, i, ", ")
                 /\ stmt.binds[i] =
                      Str(r[Cardinality(C_SpeakersUpTo(text, i))]
                            .value[i - C_LastSpeaker(text, i)])

C27_Witness ==
  /\ pc = "awaiting"
  /\ queryArgs = [limit |-> 1,
                  excluded |-> <<[key |-> <<"a">>, value |-> <<>>],
                                 [key |-> <<"b">>, value |-> << <<"2">>, <<"1">> >>]>>]
  /\ Len(C_Positions(stmt.text)) = 4
  /\ stmt.binds = <<Str(<<"b">>), Str(<<"2">>), Str(<<"1">>), NumVal(1)>>

----------------------------------------------------------------------------
(* Further properties of the GET / route (Spec).                           *)

\* C28: while a GET / request is handled, the row store is called only after
\* both the limit and the exclusion validation of that request succeeded, at
\* most once, and with an integer in [1, 100] as last bind value; a request
\* that fails validation never reaches the row store.
C28_StoreAfterValidation ==
  C_AppRoot =>
    /\ dbCalls \in {0, 1}
    /\ dbCalls = 1 =>
         /\ calls = <<"validateLimit", "validateExcluded">>
         /\ limitResult = validateLimit(rawLimit)
         /\ excludedResult = validateExcluded(rawExcluded)
         /\ ~limitResult.isResponse
         /\ ~excludedResult.isResponse
         /\ stmt.bindCalls = 1
         /\ stmt.binds[Len(stmt.binds)] = NumVal(limitResult.limit)
         /\ limitResult.limit \in 1..100
    /\ C_FailsValidation => (dbCalls = 0 /\ stmt = NoStatement /\ storeReply = NoReply)
    /\ dbCalls = 0 => C_FailsValidation

C28_Witness ==
  /\ pc = "awaiting"
  /\ C_AppRoot
  /\ rawLimit = Str(<<"1", "0">>)
  /\ rawExcluded = Str(<<"a", "=", "1">>)
  /\ dbCalls = 1
  /\ stmt.binds = <<Str(<<"a">>), Str(<<"1">>), NumVal(10)>>

\* the ids of the entries that are not blank, in order
C_Ids(items) == [k \in 1..Len(C_NonBlank(items)) |-> C_Parts(C_NonBlank(items)[k])[1]]

\* C29: an id repeated in the exclusion string keeps the position of its
\* first occurrence and holds the sequences of its last occurrence, so the
\* bind values list each id at its first-occurrence position followed by the
\* last occurrence's sequences ("a=1;b=2;a=3" with limit L binds
\* [a, 3, b, 2, L]).
C29_FirstPositionLastSequences ==
  (C_AppRoot /\ dbCalls = 1 /\ rawExcluded.t = "string" /\ rawExcluded.s # <<>>) =>
    LET items == Split(rawExcluded.s, ";")
        map == queryArgs.excluded
        b == stmt.binds
    IN /\ map = excludedResult.excluded
       /\ \A m, n \in 1..Len(map) :
            m < n => C_FirstIndex(C_Ids(items), map[m].key)
                       < C_FirstIndex(C_Ids(items), map[n].key)
       /\ Len(b) = C_Offset(map, Len(map) + 1) + 1
       /\ \A m \in 1..Len(map) :
            LET last == C_Candidates(C_LastEntryOf(items, map[m].key))
            IN /\ b[C_Offset(map, m) + 1] = Str(map[m].key)
               /\ {b[C_Offset(map, m) + 1 + q] : q \in 1..Len(map[m].value)}
                    = {Str(last[j]) : j \in {i \in 1..Len(last) : last[i] # <<>>}}
       /\ rawExcluded.s = <<"a", "=", "1", ";", "b", "=", "2", ";", "a", "=", "3">> =>
            b = <<Str(<<"a">>), Str(<<"3">>), Str(<<"b">>), Str(<<"2">>),
                  NumVal(limitResult.limit)>>

C29_Witness ==
  /\ pc = "awaiting"
  /\ C_AppRoot
  /\ rawLimit = Str(<<"1", "0">>)
  /\ rawExcluded = Str(<<"a", "=", "1", ";", "b", "=", "2", ";", "a", "=", "3">>)
  /\ stmt.binds = <<Str(<<"a">>), Str(<<"3">>), Str(<<"b">>), Str(<<"2">>), NumVal(10)>>

----------------------------------------------------------------------------
(* Order of the errors of validateExcluded (SpecExcluded).                 *)

\* C30: validateExcluded takes the entries left to right and stops at the
\* first invalid one: the error is that of the leftmost invalid entry, kind
\* and message, the entries to its right do not matter, and the entries
\* parsed to its left are not returned, the result being the error alone.
C30_LeftmostErrorOnly ==
  C_StringCall =>
    LET items == Split(rawExcluded.s, ";")
        k == C_FirstInvalid(items)
    IN /\ excludedResult.isResponse <=> k > 0
       /\ k > 0 =>
            /\ DOMAIN excludedResult = {"isResponse", "status", "error"}
            /\ excludedResult = validateExcluded(Str(items[k]))
            /\ excludedResult = validateExcluded(Str(Join(SubSeq(items, 1, k), ";")))
            /\ C_MalformedEntry(items[k]) =>
                 excludedResult.error = MalformedMessage(items[k])
            /\ C_EmptyListEntry(items[k]) =>
                 excludedResult.error = EmptySequencesMessage(C_Parts(items[k])[1], items[k])

\* ";b=2;a=,;a": a valid entry, then an empty sequence list, then no '='
C30_Witness ==
  /\ pc = "returned"
  /\ rawExcluded = Str(<<";", "b", "=", "2", ";", "a", "=", ",", ";", "a">>)
  /\ excludedResult =
       [isResponse |-> TRUE, status |-> 400,
        error |-> <<"'excluded' must have at least one sequence for id ",
                    "a", ": ", "a", "=", ",">>]

====
